---- MODULE Spec2Model ----
(***************************************************************************)
(* A model of ttygrid (src/src/lib.rs, src/src/macros.rs): a TTYGrid owns  *)
(* a registry of shared GridHeader cells, a list of GridLines and a width  *)
(* budget; display() computes the column widths, selects the columns that  *)
(* fit the width and formats the table.                                    *)
(*                                                                         *)
(* A header is an Rc<RefCell<GridHeader>>: the model names the Rc by its   *)
(* position in the registry (a "handle") and keeps the GridHeader values   *)
(* in the variable headers, so that a borrow of a handle reads             *)
(* headers[handle].  Every comparison the code makes between headers is a  *)
(* comparison of the borrowed VALUES (derived PartialEq, hand-written Ord) *)
(* and is modelled as such.                                                *)
(*                                                                         *)
(* Scope.  TTYGrid::write runs the same determine_headers as display and   *)
(* prints the same lines between colour escapes; display stands for both.  *)
(* Cells always point at headers of the registry.  Widths are sums of      *)
(* string lengths and are kept as unbounded integers; the priority sum is  *)
(* a sum of caller-chosen usize values and is narrowed to the usize word,  *)
(* which the model scales down to UsizeBits bits.                          *)
(***************************************************************************)
EXTENDS Integers, Sequences, FiniteSets, TLC

\* ---------------------------------------------------------------- bounds
\* Largest number of columns of a registry.
MaxCols == 3
\* Largest number of lines the table holds at a time.
MaxLines == 1
\* Width in bits of the modelled usize (priority sums wrap / overflow at 2^UsizeBits).
UsizeBits == 3
\* Largest number of display() calls in a behaviour.
MaxRenders == 2

\* std::usize::MAX of the modelled word.
MAX == 2^UsizeBits - 1

\* Header texts, cell contents, priorities and terminal widths the inputs are drawn from.
Texts == {"id", "timestamp"}
Contents == {"", "ab"}
Priorities == {0, 2, 3, MAX}
Widths == {8, 16}

\* -------------------------------------------------------------- Option<T>
None == [some |-> FALSE, val |-> 0]
Some(v) == [some |-> TRUE, val |-> v]
unwrap_or(o, d) == IF o.some THEN o.val ELSE d

\* Ordering values and Ordering::then
Less == "Less"
Equal == "Equal"
Greater == "Greater"
cmp_int(a, b) == IF a < b THEN Less ELSE IF a > b THEN Greater ELSE Equal
then(c, d) == IF c # Equal THEN c ELSE d
\* Option<usize>::cmp: None < Some(_), Some by value
cmp_option(a, b) ==
  IF a.some /\ b.some THEN cmp_int(a.val, b.val)
  ELSE IF a.some THEN Greater
  ELSE IF b.some THEN Less
  ELSE Equal

\* ------------------------------------------------------------ GridHeader
GridHeader_default ==
  [index |-> None, text |-> "", min_size |-> None, max_pad |-> Some(4),
   priority |-> 0, max_len |-> None]

\* header!(text, priority): GridHeader::default().set_text(..).set_priority(..)
header(text, priority) ==
  [GridHeader_default EXCEPT !.text = text, !.priority = priority]

\* impl Ord / PartialOrd for GridHeader
GridHeader_cmp(self, other) ==
  IF self.index.some
  THEN then(cmp_int(self.priority, other.priority), cmp_option(self.index, other.index))
  ELSE cmp_int(self.priority, other.priority)

\* -------------------------------------------------------------- GridItem
GridItem_new(h, contents) == [header |-> h, contents |-> contents, max_len |-> None]
GridItem_len(item) == Len(item.contents) + 1

\* ----------------------------------------------------------------- state
VARIABLES
  headers,   \* TTYGrid.headers: the GridHeader value behind each registry handle
  selected,  \* TTYGrid.selected: sequence of handles
  lines,     \* TTYGrid.lines: sequence of GridLines (sequences of GridItems)
  width,     \* TTYGrid.width
  result,    \* what the last call returned
  output,    \* the String the last display() returned (when it returned Ok)
  prio_map,  \* the prio_map the last display() built (empty off the slow path)
  renders,   \* number of display() calls so far
  overflow_checks,  \* the build: "on" (debug: arithmetic overflow panics) or "off" (wraps)
  sort_impl  \* the build: the insertion sort slice::sort runs

vars == <<headers, selected, lines, width, result, output, prio_map, renders,
          overflow_checks, sort_impl>>

\* A Vec built element by element: the sequence [i \in 1..n |-> f[i]], evaluated once
Vec(f, n) == SubSeq(f, 1, n)

\* ---------------------------------------------------------- LengthMapper
Ok(v) == [ok |-> TRUE, val |-> v]
Err == [ok |-> FALSE, val |-> 0]

\* LengthMapper::map_lines: per line, the (header handle, item.len()) pairs
map_lines(ls) ==
  Vec([l \in 1..Len(ls) |->
         Vec([i \in 1..Len(ls[l]) |->
                [header |-> ls[l][i].header, len |-> GridItem_len(ls[l][i])]], Len(ls[l]))],
      Len(ls))

\* line.iter().find(|i| i.0.borrow().eq(header)): position of the first entry
\* whose header VALUE equals `h` (0 when there is none)
find(hs, line, h) ==
  LET hit == {i \in 1..Len(line) : hs[line[i].header] = h}
  IN IF hit = {} THEN 0 ELSE CHOOSE i \in hit : \A j \in hit : i <= j

RECURSIVE SeqMax(_)
SeqMax(s) ==
  IF Len(s) = 0 THEN 0
  ELSE LET m == SeqMax(Tail(s)) IN IF m < Head(s) THEN Head(s) ELSE m

\* LengthMapper::max_len_for_column
max_len_for_column(len_map, hs, h) ==
  LET found == Vec([l \in 1..Len(len_map) |-> find(hs, len_map[l], h)], Len(len_map))
  IN IF \E l \in 1..Len(len_map) : found[l] = 0
     THEN Err
     ELSE Ok(SeqMax([l \in 1..Len(len_map) |-> len_map[l][found[l]].len])
               + unwrap_or(h.max_pad, 0) + 2)

RECURSIVE SumSeq(_)
SumSeq(s) == IF Len(s) = 0 THEN 0 ELSE Head(s) + SumSeq(Tail(s))

\* LengthMapper::max_len_for_headers: a column that is not found counts 0
\* (unwrap_or_default)
max_len_for_headers(len_map, hs, hl) ==
  SumSeq(Vec([k \in 1..Len(hl) |->
                LET r == max_len_for_column(len_map, hs, hs[hl[k]])
                IN IF r.ok THEN r.val ELSE 0], Len(hl)))

\* TTYGrid::set_grid_max_len, first loop: each header in registry order gets its
\* max_len; the `?` returns at the first header that is not found in some line,
\* leaving the headers before it updated.
RECURSIVE set_header_max_len(_, _, _)
set_header_max_len(len_map, hs, idx) ==
  IF idx > Len(hs) THEN [ok |-> TRUE, headers |-> hs]
  ELSE LET r == max_len_for_column(len_map, hs, hs[idx])
       IN IF ~r.ok THEN [ok |-> FALSE, headers |-> hs]
          ELSE set_header_max_len(len_map, [hs EXCEPT ![idx].max_len = Some(r.val)], idx + 1)

\* TTYGrid::set_grid_max_len, second loop: the item at position idx of every line
\* gets the cached max_len of column idx (items past the last column are left alone)
set_item_max_len(ls, hs) ==
  Vec([l \in 1..Len(ls) |->
         Vec([i \in 1..Len(ls[l]) |->
                IF i <= Len(hs) THEN [ls[l][i] EXCEPT !.max_len = Some(hs[i].max_len.val)]
                ELSE ls[l][i]], Len(ls[l]))],
      Len(ls))

set_grid_max_len(len_map, hs, ls) ==
  LET r == set_header_max_len(len_map, hs, 1)
  IN IF r.ok THEN [ok |-> TRUE, headers |-> r.headers, lines |-> set_item_max_len(ls, r.headers)]
     ELSE [ok |-> FALSE, headers |-> r.headers, lines |-> ls]

\* Vec::remove
Remove(s, i) == SubSeq(s, 1, i - 1) \o SubSeq(s, i + 1, Len(s))

\* lib.rs 299-308: the index of the first header of lowest priority, among
\* priorities strictly below usize::MAX (0 for None)
to_remove(hs, hl) ==
  LET below == {i \in 1..Len(hl) : hs[hl[i]].priority < MAX}
  IN IF below = {} THEN 0
     ELSE CHOOSE i \in below :
            \A j \in below : \/ hs[hl[i]].priority < hs[hl[j]].priority
                             \/ hs[hl[i]].priority = hs[hl[j]].priority /\ i <= j

\* lib.rs 297-317: the shrink loop of one prefix
RECURSIVE shrink(_, _, _, _)
shrink(len_map, hs, hl, w) ==
  LET max_len == max_len_for_headers(len_map, hs, hl)
  IN IF max_len <= w THEN [headers |-> hl, max_len |-> max_len]
     ELSE LET r == to_remove(hs, hl)
          IN IF r = 0 THEN [headers |-> hl, max_len |-> 0]  \* bury it
             ELSE shrink(len_map, hs, Remove(hl, r), w)

\* lib.rs 319: fold(0, |acc, x| acc + x.priority), unbounded
priority_sum(hs, hl) == SumSeq(Vec([k \in 1..Len(hl) |-> hs[hl[k]].priority], Len(hl)))

\* lib.rs 287-322: prio_map, in push order (prefix lengths N down to 1); the
\* priority sum is kept unbounded here and narrowed to usize by determine_headers
prio_map_of(len_map, hs, w) ==
  Vec([k \in 1..Len(hs) |->
         LET c == shrink(len_map, hs, Vec([i \in 1..Len(hs) |-> i], Len(hs) - k + 1), w)
         IN [index |-> priority_sum(hs, c.headers), headers |-> c.headers,
             max_len |-> c.max_len]],
      Len(hs))

\* derived Ord of HeaderList (Vec<Rc<RefCell<GridHeader>>>): lexicographic over
\* GridHeader::cmp of the borrowed values, then by length
HeaderList_cmp(hs, a, b) ==
  LET n == IF Len(a) < Len(b) THEN Len(a) ELSE Len(b)
      diff == {i \in 1..n : GridHeader_cmp(hs[a[i]], hs[b[i]]) # Equal}
  IN IF diff = {} THEN cmp_int(Len(a), Len(b))
     ELSE LET i == CHOOSE i \in diff : \A j \in diff : i <= j
          IN GridHeader_cmp(hs[a[i]], hs[b[i]])

\* Ord of the prio_map entries (usize, (HeaderList, usize)): element by element
entry_cmp(hs, a, b) ==
  then(cmp_int(a.index, b.index),
       then(HeaderList_cmp(hs, a.headers, b.headers), cmp_int(a.max_len, b.max_len)))

is_less(hs, a, b) == entry_cmp(hs, a, b) = Less

\* slice::sort on a short slice is an insertion sort. The standard library has
\* shipped two: inserting v[i] into the sorted v[..i] from the right end
\* (insertion_sort_shift_left), and inserting v[i] into the sorted v[i+1..] from
\* the left end (insert_head). They agree whenever the comparison is a total
\* order; GridHeader::cmp is not one, so both are modelled.
insert_tail(hs, v, i) ==
  LET tmp == v[i]
      stop == {j \in 1..(i - 1) : ~is_less(hs, tmp, v[j])}
      pos == IF stop = {} THEN 1 ELSE (CHOOSE j \in stop : \A k \in stop : k <= j) + 1
  IN SubSeq(v, 1, pos - 1) \o <<tmp>> \o SubSeq(v, pos, i - 1) \o SubSeq(v, i + 1, Len(v))

RECURSIVE insertion_sort_shift_left(_, _, _)
insertion_sort_shift_left(hs, v, i) ==
  IF i > Len(v) THEN v ELSE insertion_sort_shift_left(hs, insert_tail(hs, v, i), i + 1)

insert_head(hs, v, i) ==
  LET tmp == v[i]
      stop == {j \in (i + 1)..Len(v) : ~is_less(hs, v[j], tmp)}
      pos == IF stop = {} THEN Len(v) ELSE (CHOOSE j \in stop : \A k \in stop : j <= k) - 1
  IN SubSeq(v, 1, i - 1) \o SubSeq(v, i + 1, pos) \o <<tmp>> \o SubSeq(v, pos + 1, Len(v))

RECURSIVE insertion_sort_insert_head(_, _, _)
insertion_sort_insert_head(hs, v, i) ==
  IF i < 1 THEN v ELSE insertion_sort_insert_head(hs, insert_head(hs, v, i), i - 1)

SortImpls == {"shift_left", "insert_head"}

\* prio_map.sort()
sort(hs, v, impl) ==
  IF Len(v) < 2 THEN v
  ELSE IF impl = "shift_left" THEN insertion_sort_shift_left(hs, v, 2)
  ELSE insertion_sort_insert_head(hs, v, Len(v) - 1)

\* TTYGrid::select for each header of max_headers: set_index(idx), idx from 0
select_all(hs, hl) ==
  Vec([h \in 1..Len(hs) |->
         IF \E k \in 1..Len(hl) : hl[k] = h
         THEN [hs[h] EXCEPT !.index = Some((CHOOSE k \in 1..Len(hl) : hl[k] = h) - 1)]
         ELSE hs[h]],
      Len(hs))

\* TTYGrid::determine_headers, lines 273-322: the widths, the fast-path test and
\* the prio_map. step is "MissingColumn" (set_grid_max_len returned Err), "all"
\* (everything fits: select_all_headers) or "fit" (the slow path).
candidates(hs, ls, w) ==
  LET len_map == map_lines(ls)
      g == set_grid_max_len(len_map, hs, ls)
      all == Vec([i \in 1..Len(hs) |-> i], Len(hs))
  IN IF ~g.ok
     THEN [step |-> "MissingColumn", headers |-> g.headers, lines |-> ls, all |-> all,
           prio_map |-> <<>>]
     ELSE IF max_len_for_headers(len_map, g.headers, all) <= w
     THEN [step |-> "all", headers |-> g.headers, lines |-> g.lines, all |-> all,
           prio_map |-> <<>>]
     ELSE [step |-> "fit", headers |-> g.headers, lines |-> g.lines, all |-> all,
           prio_map |-> prio_map_of(len_map, g.headers, w)]

\* deselect_all_headers that leaves the old selection in place
deselect_all_headers_kept(sel) == sel

\* TTYGrid::deselect_all_headers
deselect_all_headers(sel) == <<>>

\* Whether the fold of line 319 overflows usize for some prefix
overflows(c) == \E k \in 1..Len(c.prio_map) : c.prio_map[k].index > MAX

\* prio_map as the code holds it: the priority sums narrowed to usize
wrapped(pm) == Vec([k \in 1..Len(pm) |-> [pm[k] EXCEPT !.index = @ % (MAX + 1)]], Len(pm))

\* TTYGrid::determine_headers, the returns of lines 276-336 from what `candidates`
\* computed. checks: "on" when the build panics on the overflow of the priority
\* sum of line 319 (debug), "off" when it wraps (release). impl: the insertion sort.
pick(c, sel, checks, impl) ==
  IF c.step = "MissingColumn"
  THEN [result |-> "MissingColumn", headers |-> c.headers, selected |-> sel,
        lines |-> c.lines, prio_map |-> <<>>]
  ELSE IF c.step = "all"
  THEN [result |-> "Ok", headers |-> c.headers, selected |-> c.all, lines |-> c.lines,
        prio_map |-> <<>>]
  ELSE IF checks = "on" /\ overflows(c)
  THEN [result |-> "panic", headers |-> c.headers, selected |-> deselect_all_headers(sel),
        lines |-> c.lines, prio_map |-> <<>>]
  ELSE IF Len(c.prio_map) = 0
  THEN [result |-> "TerminalTooSmall", headers |-> c.headers,
        selected |-> deselect_all_headers(sel), lines |-> c.lines, prio_map |-> <<>>]
  ELSE LET sorted == sort(c.headers, wrapped(c.prio_map), impl)
           max_headers == sorted[Len(sorted)].headers
       IN [result |-> "Ok", headers |-> select_all(c.headers, max_headers),
           selected |-> deselect_all_headers(sel) \o max_headers, lines |-> c.lines,
           prio_map |-> wrapped(c.prio_map)]

determine_headers(hs, sel, ls, w, checks, impl) ==
  pick(candidates(hs, ls, w), sel, checks, impl)

\* ------------------------------------------------------------- formatting
RECURSIVE Repeat(_, _)
Repeat(c, n) == IF n <= 0 THEN "" ELSE c \o Repeat(c, n - 1)

\* format!("{:<width$}", s): left-aligned, filled up to width, never truncated
PadLeft(s, fill, w) == s \o Repeat(fill, w - Len(s))

RECURSIVE Concat(_)
Concat(ss) == IF Len(ss) = 0 THEN "" ELSE Head(ss) \o Concat(Tail(ss))

\* impl Display for HeaderList: one field
HeaderField(h) == PadLeft(h.text, " ", unwrap_or(h.max_len, Len(h.text) + 2))

HeaderList_fmt(hs, hl) == Concat(Vec([k \in 1..Len(hl) |-> HeaderField(hs[hl[k]])], Len(hl)))

\* impl Display for GridItem
GridItem_fmt(item) == PadLeft(item.contents, " ", unwrap_or(item.max_len, GridItem_len(item)))

\* TTYGrid::is_selected: self.selected.0.contains(&header), by value
is_selected(hs, sel, h) == \E k \in 1..Len(sel) : hs[sel[k]] = hs[h]

\* GridLine::selected
GridLine_selected(hs, sel, line) == SelectSeq(line, LAMBDA item : is_selected(hs, sel, item.header))

GridLine_fmt(line) == Concat(Vec([i \in 1..Len(line) |-> GridItem_fmt(line[i])], Len(line)))

\* impl Display for TTYGrid
TTYGrid_fmt(hs, sel, ls, w) ==
  HeaderList_fmt(hs, sel) \o "\n" \o PadLeft("-", "-", w) \o "\n"
    \o Concat(Vec([l \in 1..Len(ls) |->
                     GridLine_fmt(GridLine_selected(hs, sel, ls[l])) \o "\n"], Len(ls)))

\* ---------------------------------------------------------------- actions
\* grid!(header!(..), ..): TTYGrid::new
Init ==
  /\ \E n \in 0..MaxCols : \E t \in [1..n -> Texts] : \E p \in [1..n -> Priorities] :
       headers = [i \in 1..n |-> header(t[i], p[i])]
  /\ selected = <<>>
  /\ lines = <<>>
  /\ width \in Widths
  /\ result = "new"
  /\ output = ""
  /\ prio_map = <<>>
  /\ renders = 0
  /\ overflow_checks = "unknown"
  /\ sort_impl = "unknown"

\* A panic ends the program; the behaviours end with the last display() call
Live == result # "panic" /\ renders < MaxRenders

\* add_line!(grid, content..)
add_line_macro(content) ==
  /\ Live
  /\ IF Len(content) # Len(headers)
     THEN /\ result' = "rejected"
          /\ lines' = lines
     ELSE /\ result' = "added"
          /\ lines' = Append(lines, Vec([i \in 1..Len(content) |-> GridItem_new(i, content[i])],
                                       Len(content)))
  /\ output' = ""
  /\ UNCHANGED <<headers, selected, width, prio_map, renders, overflow_checks, sort_impl>>

\* TTYGrid::add_line(item)
add_line(item) ==
  /\ Live
  /\ lines' = Append(lines, item)
  /\ result' = "added"
  /\ output' = ""
  /\ UNCHANGED <<headers, selected, width, prio_map, renders, overflow_checks, sort_impl>>

\* TTYGrid::clear_lines
clear_lines ==
  /\ Live
  /\ lines' = <<>>
  /\ result' = "cleared"
  /\ output' = ""
  /\ UNCHANGED <<headers, selected, width, prio_map, renders, overflow_checks, sort_impl>>

\* The builds a display() call may run under: the build is the same throughout
\* a behaviour, and is recorded by the first call whose outcome depends on it.
Known(v, all) == IF v = "unknown" THEN all ELSE {v}

\* TTYGrid::display
display ==
  /\ Live
  /\ \E c \in {candidates(headers, lines, width)} :
       \E checks \in Known(overflow_checks, {"on", "off"}), impl \in Known(sort_impl, SortImpls) :
         \E d \in {pick(c, selected, checks, impl)} :
           /\ headers' = d.headers
           /\ selected' = d.selected
           /\ lines' = d.lines
           /\ result' = d.result
           /\ prio_map' = d.prio_map
           /\ output' = IF d.result = "Ok"
                        THEN TTYGrid_fmt(d.headers, d.selected, d.lines, width)
                        ELSE ""
           /\ overflow_checks' = IF c.step = "fit" /\ overflows(c) THEN checks
                                 ELSE overflow_checks
           /\ sort_impl' = IF \A i \in SortImpls : pick(c, selected, checks, i) = d
                           THEN sort_impl ELSE impl
  /\ renders' = renders + 1
  /\ UNCHANGED width

NumCols == Len(headers)

\* The argument lists of add_line!: up to one content more or less than columns
Arities == {n \in {NumCols - 1, NumCols, NumCols + 1} : n >= 0}
ContentLists == UNION {[1..n -> Contents] : n \in Arities}

\* The GridLines handed to TTYGrid::add_line directly: a row without the cell
\* of the last column, and a row with one more (empty) cell, of the first column
ShortLines ==
  {Vec([i \in 1..(NumCols - 1) |-> GridItem_new(i, c[i])], NumCols - 1) :
     c \in IF NumCols > 0 THEN [1..(NumCols - 1) -> Contents] ELSE {}}
LongLines ==
  {Vec([i \in 1..NumCols |-> GridItem_new(i, c[i])], NumCols) \o <<GridItem_new(1, "")>> :
     c \in IF NumCols > 0 THEN [1..NumCols -> Contents] ELSE {}}
GridLines == ShortLines \cup LongLines

Next ==
  \/ \E content \in ContentLists : Len(lines) < MaxLines /\ add_line_macro(content)
  \/ \E item \in GridLines : Len(lines) < MaxLines /\ add_line(item)
  \/ clear_lines
  \/ display

Spec == Init /\ [][Next]_vars

\* ------------------------------------------------------------------ claims
\* The notions the claims are stated in.

AllColumns == Vec([i \in 1..NumCols |-> i], NumCols)

\* The last call was a display(), whatever it returned
Rendered == result \in {"Ok", "MissingColumn", "TerminalTooSmall", "panic"}

\* Every row has one cell per column, cell i belonging to column i
WellFormed ==
  \A l \in 1..Len(lines) :
     /\ Len(lines[l]) = NumCols
     /\ \A i \in 1..NumCols : lines[l][i].header = i

\* Row l holds a cell that belongs to column h (by identity of the header)
HasCell(l, h) == \E i \in 1..Len(lines[l]) : lines[l][i].header = h

\* The display width of column h of a well-formed table: the longest cell of
\* the column + 1, + pad + 2
columnDisplayWidth(h) ==
  SeqMax(Vec([l \in 1..Len(lines) |-> GridItem_len(lines[l][h])], Len(lines)))
    + unwrap_or(headers[h].max_pad, 0) + 2

subsetWidth(hl) == SumSeq(Vec([k \in 1..Len(hl) |-> columnDisplayWidth(hl[k])], Len(hl)))

\* The sum of the widths display() computed for the columns hl (GridHeader.max_len)
computedWidth(hl) ==
  SumSeq(Vec([k \in 1..Len(hl) |-> unwrap_or(headers[hl[k]].max_len, 0)], Len(hl)))

MaxPriority == SeqMax(Vec([i \in 1..NumCols |-> headers[i].priority], NumCols))

\* No priority is usize::MAX, and no two columns have the same text and priority
NoMaxPriority == \A i \in 1..NumCols : headers[i].priority < MAX
DistinctColumns ==
  \A i, j \in 1..NumCols :
     i # j => headers[i].text # headers[j].text \/ headers[i].priority # headers[j].priority

Omitted == {h \in 1..NumCols : \A k \in 1..Len(selected) : selected[k] # h}

\* C1 (budget invariant): whenever display() returns Ok for a table whose rows
\* have one cell per column, the computed widths of the selected columns sum to
\* at most the width budget.
C1_BudgetInvariant ==
  (result = "Ok" /\ WellFormed) => computedWidth(selected) <= width

\* C2 (infeasibility): when every column of highest priority is wider than the
\* width budget, display() fails with "terminal too small" and returns no text.
C2_Infeasibility ==
  (/\ Rendered
   /\ WellFormed
   /\ NumCols > 0
   /\ \A h \in 1..NumCols :
         headers[h].priority = MaxPriority => columnDisplayWidth(h) > width)
  => (result = "TerminalTooSmall" /\ output = "")

\* The table as it is before its first display(): no index, no max_len
Pristine(hs) ==
  Vec([i \in 1..Len(hs) |-> [hs[i] EXCEPT !.index = None, !.max_len = None]], Len(hs))
PristineLines(ls) ==
  Vec([l \in 1..Len(ls) |->
         Vec([i \in 1..Len(ls[l]) |-> [ls[l][i] EXCEPT !.max_len = None]], Len(ls[l]))],
      Len(ls))

\* What display() returns for the same registry, rows and width when nothing
\* was rendered before
FirstRender(checks, impl) ==
  LET d == determine_headers(Pristine(headers), <<>>, PristineLines(lines), width, checks, impl)
  IN [result |-> d.result, selected |-> d.selected,
      output |-> IF d.result = "Ok" THEN TTYGrid_fmt(d.headers, d.selected, d.lines, width)
                 ELSE ""]

\* C3 (determinism across renders): every display() returns the selection and
\* the text that the first display() of the same registry, rows and width
\* returns (under the same build).
C3_Determinism ==
  Rendered =>
    \E checks \in Known(overflow_checks, {"on", "off"}), impl \in Known(sort_impl, SortImpls) :
       \E f \in {FirstRender(checks, impl)} :
          /\ f.result = result
          /\ result = "Ok" => (f.selected = selected /\ f.output = output)

\* C4 (arity enforcement): every row the table holds has exactly as many cells
\* as the registry has columns.
C4_ArityEnforcement ==
  \A l \in 1..Len(lines) : Len(lines[l]) = NumCols

\* C5 (fits-all): when the display widths of all columns of a well-formed table
\* sum to at most the width budget, display() returns Ok and selects all the
\* columns in declaration order.
C5_FitsAll ==
  (Rendered /\ WellFormed /\ subsetWidth(AllColumns) <= width)
  => (result = "Ok" /\ selected = AllColumns)

\* C6 (order preservation): after every successful display() the selection is a
\* sub-sequence of the registry: registry columns only, none twice, in
\* declaration order.
C6_OrderPreservation ==
  result = "Ok" =>
    /\ \A k \in 1..Len(selected) : selected[k] \in 1..NumCols
    /\ \A j, k \in 1..Len(selected) : j < k => selected[j] < selected[k]

\* A successful slow-path display() that dropped the first column and kept at
\* least two others
C6_Witness ==
  result = "Ok" /\ prio_map # <<>> /\ Len(selected) >= 2 /\ selected[1] > 1

\* C7 (priority-based retention), for registries without a usize::MAX priority
\* and without two columns of equal text and priority: when the table does not
\* fit, no omitted column that would fit the width budget by itself has a
\* strictly higher priority than a selected column.
C7_PriorityRetention ==
  (/\ result = "Ok"
   /\ WellFormed
   /\ NoMaxPriority
   /\ DistinctColumns
   /\ subsetWidth(AllColumns) > width)
  => \A o \in Omitted : \A k \in 1..Len(selected) :
        columnDisplayWidth(o) <= width
          => headers[o].priority <= headers[selected[k]].priority

\* C8 (empty-table header width): when a table without rows is displayed, the
\* field of every selected header is at least 2 longer than the header text.
C8_EmptyTableHeaderWidth ==
  (result = "Ok" /\ lines = <<>>) =>
    \A k \in 1..Len(selected) :
       Len(HeaderField(headers[selected[k]])) >= Len(headers[selected[k]].text) + 2

\* C9 (missing-column error): when some row has no cell for some registry
\* column, display() returns the missing-column error and no text.
C9_MissingColumnError ==
  (Rendered /\ \E l \in 1..Len(lines), h \in 1..NumCols : ~HasCell(l, h))
  => (result = "MissingColumn" /\ output = "")

\* C10 (winner choice): on the slow path the selection is a recorded candidate
\* of maximal priority sum and, among the candidates of that priority sum, of
\* maximal final width.
C10_WinnerChoice ==
  (result = "Ok" /\ prio_map # <<>>) =>
    \E k \in 1..Len(prio_map) :
       /\ prio_map[k].headers = selected
       /\ \A j \in 1..Len(prio_map) :
             /\ prio_map[j].index <= prio_map[k].index
             /\ prio_map[j].index = prio_map[k].index
                  => prio_map[j].max_len <= prio_map[k].max_len

\* The candidate prefix[1..len] of the registry
Prefix(len) == SubSeq(AllColumns, 1, len)

\* The earliest column of lowest priority among the columns hl
lowestPriority(hl) ==
  CHOOSE i \in 1..Len(hl) :
    \A j \in 1..Len(hl) :
       \/ headers[hl[i]].priority < headers[hl[j]].priority
       \/ headers[hl[i]].priority = headers[hl[j]].priority /\ i <= j

\* hl after removing one lowest-priority column at a time for as long as its
\* width exceeds the width budget
RECURSIVE shrunk(_)
shrunk(hl) ==
  IF subsetWidth(hl) <= width THEN hl ELSE shrunk(Remove(hl, lowestPriority(hl)))

\* The sum of the priorities of the columns hl
prioritySum(hl) == SumSeq(Vec([k \in 1..Len(hl) |-> headers[hl[k]].priority], Len(hl)))

\* C11 (shrink step), for well-formed tables without two columns of equal text
\* and priority: on the slow path the candidate recorded for every prefix of
\* the registry is the prefix with its earliest lowest-priority column removed,
\* one at a time, until it fits the width budget and no further, and the
\* priority sum recorded with it is the sum over the surviving columns.
C11_ShrinkStep ==
  (result = "Ok" /\ prio_map # <<>> /\ WellFormed /\ DistinctColumns) =>
    \A k \in 1..Len(prio_map) :
       /\ prio_map[k].headers = shrunk(Prefix(NumCols - k + 1))
       /\ prio_map[k].index = prioritySum(prio_map[k].headers)

\* The header line and the line of row l, as display() writes them
headerLine == HeaderList_fmt(headers, selected)
rowLine(l) == GridLine_fmt(GridLine_selected(headers, selected, lines[l]))

\* C12 (line width and alignment): in every successful render of a table whose
\* rows have one cell per column, the header line and every row line are
\* exactly as long as the sum of the computed widths of the selected columns.
C12_LineWidth ==
  (result = "Ok" /\ WellFormed) =>
    /\ output = TTYGrid_fmt(headers, selected, lines, width)
    /\ Len(headerLine) = computedWidth(selected)
    /\ \A l \in 1..Len(lines) : Len(rowLine(l)) = computedWidth(selected)

====
